---- MODULE Spec2Model ----
(***************************************************************************)
(* Model of src/app.py: a Streamlit script that loads PDF letters and a    *)
(* recipient table, matches them (run_matching), lets the operator select  *)
(* matches and dispatches the selected ones by e-mail in a sequential,     *)
(* throttled loop that keeps a send log.                                   *)
(*                                                                         *)
(* Execution model.  The whole file is one script that Streamlit runs from *)
(* top to bottom once per widget event; st.session_state is the only state *)
(* that survives from one script run to the next.  A script run that       *)
(* handles an upload, a button or a checkbox is short and is one action    *)
(* here.  The script run that handles "Iniciar envio" contains the         *)
(* dispatch loop (lines 556-614), which blocks in send_email and in        *)
(* time.sleep; it is modelled step by step with pc/idx.                    *)
(*                                                                         *)
(* Two facts about that long script run are taken from the source order:   *)
(*  - both buttons are created at lines 542-550, BEFORE line 557 sets      *)
(*    sending, so during the dispatching run the cancel button is the one  *)
(*    built with disabled = not sending = True;                            *)
(*  - the flags are reset and the log is published only by the straight-   *)
(*    line code at 612-614, with no try/finally around the loop.           *)
(* Streamlit stops a running script at its next st.* call when the operator*)
(* interacts with any widget, and runs the script again from the top.  The *)
(* st.* calls inside the loop are status_text.info (573) and               *)
(* progress_bar.progress (606); a script run stopped there never reaches   *)
(* 612-614.  Actions StoppedAtStatus and StoppedAtProgress model that.     *)
(* A widget created with disabled=True returns False in that script run.   *)
(***************************************************************************)
EXTENDS Integers, Sequences, FiniteSets, TLC

(***************************************************************************)
(* Bounds of the model                                                     *)
(***************************************************************************)
MaxDocs == 3
MaxRcpt == 1
MaxFiles == 1
MaxSelGen == 1
MaxRows == 2

\* fuzz.token_sort_ratio scores lie in 0..100; run_matching accepts at >= 80
MATCH_THRESHOLD == 80

Docs == 1..MaxDocs
Rcpts == 1..MaxRcpt
FileIds == 1..MaxFiles

\* the error messages a failing transport call may carry (str(exc))
Msgs == {"refused", "timeout"}

\* scorer values used as inputs: just below, at and above the threshold
Levels == {79, 80, 100}

VARIABLES
    pdf_files,          \* keys of st.session_state["pdf_files"], in insertion order
    df_excel,           \* st.session_state["df_excel"]: [loaded, rows]
    matches,            \* st.session_state["matches"]
    unmatched,          \* st.session_state["unmatched"]
    send_log,           \* st.session_state["send_log"]
    sending,            \* st.session_state["sending"]
    cancel_requested,   \* st.session_state["cancel_requested"]
    matched_done,       \* st.session_state["matched_done"]
    sel_gen,            \* st.session_state["sel_gen"]
    zip_file_id,        \* st.session_state["_zip_file_id"], 0 = absent
    pdf_file_id,        \* st.session_state["_pdf_file_id"], 0 = absent
    excel_file_id,      \* st.session_state["_excel_file_id"], 0 = absent
    pc,                 \* position of the script run that dispatches
    idx,                \* loop index of the dispatch loop (0-based)
    selected_matches,   \* the list built at line 528 by the latest dispatching run
    log,                \* local list send_log of the dispatching run (line 564)
    calls,              \* history: send_email invocations of the latest run
    pauses,             \* history: time.sleep calls of the latest run
    m_docs, m_rows, m_pos, m_matches, m_unmatched, m_name, m_addr,
                        \* run_matching unrolled, one document per step
    n_dotted, n_plain, n_out_dotted, n_out_plain, n_stage,
                        \* normalize applied to two spellings of a name
    doc,                \* split_pdf_by_cif: the pages, each the lines of its text
    indices_inicio,     \* split_pdf_by_cif: pages that hold the marker (0-based)
    s_pc,               \* split_pdf_by_cif: position in the function
    s_idx,              \* split_pdf_by_cif: idx of the loop of line 87
    end_page,           \* split_pdf_by_cif: end_page of the current letter
    lineas,             \* split_pdf_by_cif: lineas of the current letter
    s_i,                \* split_pdf_by_cif: i of the loop of line 95
    nombre_cliente,     \* split_pdf_by_cif: nombre_cliente of the current letter
    pdf_dict,           \* split_pdf_by_cif: pdf_dict, entries in insertion order
    s_cuts              \* history: the page ranges given to insert_pdf (line 118)

session == <<pdf_files, df_excel, matches, unmatched, send_log, sending,
             cancel_requested, matched_done, sel_gen,
             zip_file_id, pdf_file_id, excel_file_id>>
run == <<pc, idx, selected_matches, log, calls, pauses>>
mvars == <<m_docs, m_rows, m_pos, m_matches, m_unmatched, m_name, m_addr>>
nvars == <<n_dotted, n_plain, n_out_dotted, n_out_plain, n_stage>>
svars == <<doc, indices_inicio, s_pc, s_idx, end_page, lineas, s_i,
           nombre_cliente, pdf_dict, s_cuts>>
vars == <<session, run, mvars, nvars, svars>>

(***************************************************************************)
(* Small helpers                                                           *)
(***************************************************************************)
Range(s) == {s[i] : i \in 1..Len(s)}

\* sequences without repetition over S, of length 0..n
DistinctSeqs(S, n) ==
    UNION {{s \in [1..k -> S] : \A i, j \in 1..k : i # j => s[i] # s[j]} : k \in 0..n}

Max(S) == CHOOSE x \in S : \A y \in S : y <= x

RECURSIVE SelectSeqBy(_, _)
\* [m for m in s if m["selected"]]
SelectSeqBy(s, i) ==
    IF i > Len(s) THEN <<>>
    ELSE (IF s[i].selected THEN <<s[i]>> ELSE <<>>) \o SelectSeqBy(s, i + 1)

DfNone == [loaded |-> FALSE, rows |-> <<>>]

(***************************************************************************)
(* run_matching (lines 131-191)                                            *)
(***************************************************************************)
\* process.extractOne(query, choices, scorer=...): the best score and the
\* position of the first choice that reaches it; None on an empty list.
\* scores[i] is the scorer's value for choice i (1-based here, row i-1 there).
ExtractOne(scores) ==
    IF Len(scores) = 0 THEN [found |-> FALSE, score |-> 0, index |-> 0]
    ELSE LET best == Max(Range(scores))
         IN [found |-> TRUE, score |-> best,
             index |-> CHOOSE i \in 1..Len(scores) :
                          /\ scores[i] = best
                          /\ \A j \in 1..(i - 1) : scores[j] # best]

MatchEntry(pdf_name, rows, res, by) ==
    [pdf_name |-> pdf_name, email |-> rows[res.index], score |-> res.score,
     matched_by |-> by, selected |-> TRUE, row_idx |-> res.index - 1]

\* MatchOne with the two searches in the wrong order: the address search is
\* tried first and the name search is the fallback
MatchOneAddressFirst(pdf_name, rows, nm, ad) ==
    LET result_name == ExtractOne(nm)
        result_dir == ExtractOne(ad)
    IN IF result_dir.found /\ result_dir.score >= MATCH_THRESHOLD
       THEN [matched |-> TRUE, entry |-> MatchEntry(pdf_name, rows, result_dir, "Direccion")]
       ELSE IF result_name.found /\ result_name.score >= MATCH_THRESHOLD
       THEN [matched |-> TRUE, entry |-> MatchEntry(pdf_name, rows, result_name, "Nombre")]
       ELSE [matched |-> FALSE, entry |-> pdf_name]

\* one iteration of the loop at lines 147-189 for document pdf_name; nm and ad
\* are the token_sort_ratio scores of the normalized query against every
\* normalized name and address of the table
MatchOne(pdf_name, rows, nm, ad) ==
    LET result_name == ExtractOne(nm)
        result_dir == ExtractOne(ad)
    IN IF result_name.found /\ result_name.score >= MATCH_THRESHOLD
       THEN [matched |-> TRUE, entry |-> MatchEntry(pdf_name, rows, result_name, "Nombre")]
       ELSE IF result_dir.found /\ result_dir.score >= MATCH_THRESHOLD
       THEN [matched |-> TRUE, entry |-> MatchEntry(pdf_name, rows, result_dir, "Direccion")]
       ELSE [matched |-> FALSE, entry |-> pdf_name]

\* The scorer of the session model: a fixed table standing for
\* fuzz.token_sort_ratio(normalize(pdf_name), normalize(name or address)).
\* Document d and recipient r are abstract texts; the table is chosen so that
\* name matches, address matches and unmatched documents all occur.
NameScore(d, r) ==
    CASE d % 4 = 1 -> IF r = 1 THEN 100 ELSE 40
      [] d % 4 = 2 -> 79
      [] d % 4 = 3 -> 80
      [] OTHER -> 10

AddrScore(d, r) ==
    CASE d % 4 = 1 -> 100
      [] d % 4 = 2 -> IF r = 1 THEN 80 ELSE 30
      [] d % 4 = 3 -> 100
      [] OTHER -> IF r = 2 THEN 90 ELSE 79

NameScores(d, rows) == [i \in 1..Len(rows) |-> NameScore(d, rows[i])]
AddrScores(d, rows) == [i \in 1..Len(rows) |-> AddrScore(d, rows[i])]

RECURSIVE MatchFrom(_, _, _)
\* the for-loop of run_matching from position i on; pairs <<matches, unmatched>>
MatchFrom(docs, rows, i) ==
    IF i > Len(docs) THEN <<<<>>, <<>>>>
    ELSE LET one == MatchOne(docs[i], rows, NameScores(docs[i], rows),
                             AddrScores(docs[i], rows))
             rest == MatchFrom(docs, rows, i + 1)
         IN IF one.matched THEN <<<<one.entry>> \o rest[1], rest[2]>>
            ELSE <<rest[1], <<one.entry>> \o rest[2]>>

run_matching(docs, rows) == MatchFrom(docs, rows, 1)

(***************************************************************************)
(* Inputs of the upload handlers                                           *)
(***************************************************************************)
\* what zipfile.ZipFile makes of an uploaded archive: BadZipFile, or the keys
\* of pdf_dict in insertion order (possibly none: an archive without PDFs)
ZipContents ==
    {[ok |-> FALSE, docs |-> <<>>]} \cup
    {[ok |-> TRUE, docs |-> d] : d \in DistinctSeqs(Docs, MaxDocs)}

\* what split_pdf_by_cif makes of an uploaded PDF: an exception, or the keys
\* of the returned dict (empty: the marker is on no page)
PdfContents ==
    {[ok |-> FALSE, docs |-> <<>>]} \cup
    {[ok |-> TRUE, docs |-> d] : d \in DistinctSeqs(Docs, MaxDocs)}

\* what lines 381-399 make of an uploaded workbook: unreadable or a required
\* column missing, or the rows that have an Email (possibly none)
ExcelContents ==
    {[ok |-> FALSE, rows |-> <<>>]} \cup
    {[ok |-> TRUE, rows |-> r] : r \in DistinctSeqs(Rcpts, MaxRcpt)}

(***************************************************************************)
(* Initial state: _STATE_DEFAULTS (lines 34-47), nothing uploaded          *)
(***************************************************************************)
RunIdle ==
    /\ pc = "idle" /\ idx = 0 /\ selected_matches = <<>> /\ log = <<>>
    /\ calls = <<>> /\ pauses = 0

MatchIdle ==
    /\ m_docs = <<>> /\ m_rows = <<>> /\ m_pos = 0 /\ m_matches = <<>>
    /\ m_unmatched = <<>> /\ m_name = <<>> /\ m_addr = <<>>

NormIdle ==
    /\ n_dotted = <<>> /\ n_plain = <<>> /\ n_out_dotted = <<>>
    /\ n_out_plain = <<>> /\ n_stage = 0

SplitIdle ==
    /\ doc = <<>> /\ indices_inicio = <<>> /\ s_pc = "idle" /\ s_idx = 0
    /\ end_page = 0 /\ lineas = <<>> /\ s_i = 0 /\ nombre_cliente = <<>>
    /\ pdf_dict = <<>> /\ s_cuts = <<>>

SessionDefaults ==
    /\ pdf_files = <<>>
    /\ df_excel = DfNone
    /\ matches = <<>>
    /\ unmatched = <<>>
    /\ send_log = <<>>
    /\ sending = FALSE
    /\ cancel_requested = FALSE
    /\ matched_done = FALSE
    /\ sel_gen = 0
    /\ zip_file_id = 0 /\ pdf_file_id = 0 /\ excel_file_id = 0

Init == SessionDefaults /\ RunIdle /\ MatchIdle /\ NormIdle /\ SplitIdle

other == <<mvars, nvars, svars>>

(***************************************************************************)
(* Script runs that handle one widget event (pc = "idle": no script run is *)
(* in its dispatch loop)                                                   *)
(***************************************************************************)
\* the ZIP upload without line 323: matched_done is left as it was
UploadZipKeepsMatched(fid, content) ==
    /\ pc = "idle"
    /\ fid # zip_file_id
    /\ zip_file_id' = fid
    /\ IF content.ok
       THEN pdf_files' = content.docs
       ELSE UNCHANGED pdf_files
    /\ UNCHANGED <<df_excel, matches, unmatched, send_log, sending,
                   cancel_requested, matched_done, sel_gen, pdf_file_id,
                   excel_file_id, run, other>>

\* ZIP upload (lines 303-331); a file whose (name, size) equals _zip_file_id
\* is not processed again
UploadZip(fid, content) ==
    /\ pc = "idle"
    /\ fid # zip_file_id
    /\ zip_file_id' = fid
    /\ IF content.ok
       THEN /\ pdf_files' = content.docs
            /\ matched_done' = FALSE
       ELSE /\ UNCHANGED <<pdf_files, matched_done>>
    /\ UNCHANGED <<df_excel, matches, unmatched, send_log, sending,
                   cancel_requested, sel_gen, pdf_file_id, excel_file_id,
                   run, other>>

\* combined PDF upload (lines 341-362)
UploadPdf(fid, content) ==
    /\ pc = "idle"
    /\ fid # pdf_file_id
    /\ pdf_file_id' = fid
    /\ IF content.ok /\ content.docs # <<>>
       THEN /\ pdf_files' = content.docs
            /\ matched_done' = FALSE
       ELSE /\ UNCHANGED <<pdf_files, matched_done>>
    /\ UNCHANGED <<df_excel, matches, unmatched, send_log, sending,
                   cancel_requested, sel_gen, zip_file_id, excel_file_id,
                   run, other>>

\* Excel upload (lines 372-411)
UploadExcel(fid, content) ==
    /\ pc = "idle"
    /\ fid # excel_file_id
    /\ excel_file_id' = fid
    /\ IF content.ok
       THEN /\ df_excel' = [loaded |-> TRUE, rows |-> content.rows]
            /\ matched_done' = FALSE
       ELSE /\ UNCHANGED <<df_excel, matched_done>>
    /\ UNCHANGED <<pdf_files, matches, unmatched, send_log, sending,
                   cancel_requested, sel_gen, zip_file_id, pdf_file_id,
                   run, other>>

can_match == Len(pdf_files) > 0 /\ df_excel.loaded

\* the handler keeps the matches of the earlier run and adds the new ones
MatchingMerged ==
    /\ pc = "idle"
    /\ can_match
    /\ LET r == run_matching(pdf_files, df_excel.rows)
       IN /\ matches' = matches \o r[1]
          /\ unmatched' = unmatched \o r[2]
    /\ matched_done' = TRUE
    /\ UNCHANGED <<pdf_files, df_excel, send_log, sending, cancel_requested,
                   sel_gen, zip_file_id, pdf_file_id, excel_file_id,
                   run, other>>

\* "Ejecutar matching" (lines 419-432): both lists are replaced.  The rows of
\* the new table are drawn at once by the rest of the script (478-496), each
\* checkbox with value = match["selected"], which it returns.
Matching ==
    /\ pc = "idle"
    /\ can_match
    /\ LET r == run_matching(pdf_files, df_excel.rows)
       IN /\ matches' = r[1]
          /\ unmatched' = r[2]
    /\ matched_done' = TRUE
    /\ UNCHANGED <<pdf_files, df_excel, send_log, sending, cancel_requested,
                   sel_gen, zip_file_id, pdf_file_id, excel_file_id,
                   run, other>>

SetAll(ms, b) == [i \in 1..Len(ms) |-> [ms[i] EXCEPT !.selected = b]]

\* "Seleccionar todos" (lines 457-460)
SelectAll ==
    /\ pc = "idle"
    /\ matched_done /\ matches # <<>>
    /\ sel_gen < MaxSelGen
    /\ matches' = SetAll(matches, TRUE)
    /\ sel_gen' = sel_gen + 1
    /\ UNCHANGED <<pdf_files, df_excel, unmatched, send_log, sending,
                   cancel_requested, matched_done, zip_file_id, pdf_file_id,
                   excel_file_id, run, other>>

\* "Deseleccionar todos" (lines 462-465)
DeselectAll ==
    /\ pc = "idle"
    /\ matched_done /\ matches # <<>>
    /\ sel_gen < MaxSelGen
    /\ matches' = SetAll(matches, FALSE)
    /\ sel_gen' = sel_gen + 1
    /\ UNCHANGED <<pdf_files, df_excel, unmatched, send_log, sending,
                   cancel_requested, matched_done, zip_file_id, pdf_file_id,
                   excel_file_id, run, other>>

\* the operator flips the checkbox of row i; line 496 writes it back
Toggle(i) ==
    /\ pc = "idle"
    /\ matched_done
    /\ i \in 1..Len(matches)
    /\ matches' = [matches EXCEPT ![i].selected = ~matches[i].selected]
    /\ UNCHANGED <<pdf_files, df_excel, unmatched, send_log, sending,
                   cancel_requested, matched_done, sel_gen, zip_file_id,
                   pdf_file_id, excel_file_id, run, other>>

\* "Cancelar envio" (lines 547-554): the button is enabled only in a script
\* run that finds sending set when it reaches line 549
Cancel ==
    /\ pc = "idle"
    /\ matched_done
    /\ sending
    /\ cancel_requested' = TRUE
    /\ UNCHANGED <<pdf_files, df_excel, matches, unmatched, send_log, sending,
                   matched_done, sel_gen, zip_file_id, pdf_file_id,
                   excel_file_id, run, other>>

(***************************************************************************)
(* Section 4: the dispatching script run (lines 528-614)                   *)
(***************************************************************************)
\* the list of line 528 without its filter: every match, selected or not
SelectedOfAll(ms) == ms

\* line 528
SelectedOf(ms) == SelectSeqBy(ms, 1)

\* lines 534-539
\* lines 534-539 without "and not sending"
ready_to_send_any_time(credentials) ==
    /\ credentials
    /\ \E i \in 1..Len(matches) : matches[i].selected

\* credentials stands for bool(sender_email) and bool(app_password), the two
\* sidebar texts the script run finds (lines 241-242)
ready_to_send(credentials) ==
    /\ credentials
    /\ Len(SelectedOf(matches)) > 0
    /\ ~sending

total == Len(selected_matches)
current == selected_matches[idx + 1]

Entry(m, estado, mensaje) ==
    [pdf_name |-> m.pdf_name, email |-> m.email, estado |-> estado, mensaje |-> mensaje]

\* "Iniciar envio" (lines 542-546 and 556-564)
StartSend(credentials) ==
    /\ pc = "idle"
    /\ matched_done
    /\ ready_to_send(credentials)
    /\ sending' = TRUE
    /\ cancel_requested' = FALSE
    /\ send_log' = <<>>
    /\ selected_matches' = SelectedOf(matches)
    /\ log' = <<>>
    /\ idx' = 0
    /\ calls' = <<>>
    /\ pauses' = 0
    /\ pc' = "poll"
    /\ UNCHANGED <<pdf_files, df_excel, matches, unmatched, matched_done, sel_gen,
                   zip_file_id, pdf_file_id, excel_file_id, other>>

\* top of an iteration (lines 566-575): the loop is exhausted, or the cancel
\* flag is set and the loop is left (567-569), or the item is taken up and
\* the try block is entered; line 577 looks the document up before
\* send_email is called
Poll ==
    /\ pc = "poll"
    /\ IF idx >= total \/ cancel_requested
       THEN /\ pc' = "publish"
            /\ UNCHANGED calls
       ELSE /\ pc' = "send"
            /\ IF current.pdf_name \in Range(pdf_files)
               THEN calls' = Append(calls, current.pdf_name)
               ELSE UNCHANGED calls
    /\ UNCHANGED <<session, idx, selected_matches, log, pauses, other>>

\* the script run is stopped at the st.* call of line 568 or 573 because the
\* operator used a widget; its list send_log is lost and lines 612-614 never run
StoppedAtStatus ==
    /\ pc = "poll"
    /\ idx < total
    /\ pc' = "idle"
    /\ idx' = 0 /\ log' = <<>>
    /\ UNCHANGED <<session, selected_matches, calls, pauses, other>>

\* send_email returns (lines 578-595)
SendOk ==
    /\ pc = "send"
    /\ current.pdf_name \in Range(pdf_files)
    /\ log' = Append(log, Entry(current, "Enviado", ""))
    /\ pc' = "progress"
    /\ UNCHANGED <<session, idx, selected_matches, calls, pauses, other>>

\* the try block raises (lines 596-604): send_email failed with message msg,
\* or the lookup of line 577 raised KeyError
SendFails(msg) ==
    /\ pc = "send"
    /\ msg \in (IF current.pdf_name \in Range(pdf_files) THEN Msgs ELSE {"KeyError"})
    /\ log' = Append(log, Entry(current, "Error", msg))
    /\ pc' = "progress"
    /\ UNCHANGED <<session, idx, selected_matches, calls, pauses, other>>

\* lines 606-610 without "idx < total - 1": a pause after the last item too
ProgressPausesAfterLast ==
    /\ pc = "progress"
    /\ IF ~cancel_requested
       THEN /\ pc' = "sleep"
            /\ pauses' = pauses + 1
            /\ UNCHANGED idx
       ELSE /\ pc' = "poll"
            /\ idx' = idx + 1
            /\ UNCHANGED pauses
    /\ UNCHANGED <<session, selected_matches, log, calls, other>>

\* lines 606-610: the progress bar, then the throttle decision
Progress ==
    /\ pc = "progress"
    /\ IF idx < total - 1 /\ ~cancel_requested
       THEN /\ pc' = "sleep"
            /\ pauses' = pauses + 1
            /\ UNCHANGED idx
       ELSE /\ pc' = "poll"
            /\ idx' = idx + 1
            /\ UNCHANGED pauses
    /\ UNCHANGED <<session, selected_matches, log, calls, other>>

\* the script run is stopped at the st.* call of line 606
StoppedAtProgress ==
    /\ pc = "progress"
    /\ pc' = "idle"
    /\ idx' = 0 /\ log' = <<>>
    /\ UNCHANGED <<session, selected_matches, calls, pauses, other>>

\* time.sleep(throttle_seconds) returns (line 610)
Sleep ==
    /\ pc = "sleep"
    /\ pc' = "poll"
    /\ idx' = idx + 1
    /\ UNCHANGED <<session, selected_matches, log, calls, pauses, other>>

\* lines 612-614, then the rest of the script
Publish ==
    /\ pc = "publish"
    /\ send_log' = log
    /\ sending' = FALSE
    /\ cancel_requested' = FALSE
    /\ pc' = "idle"
    /\ idx' = 0 /\ log' = <<>>
    /\ UNCHANGED <<pdf_files, df_excel, matches, unmatched, matched_done, sel_gen,
                   zip_file_id, pdf_file_id, excel_file_id,
                   selected_matches, calls, pauses, other>>

Next ==
    \/ \E f \in FileIds, c \in ZipContents : UploadZip(f, c)
    \/ \E f \in FileIds, c \in PdfContents : UploadPdf(f, c)
    \/ \E f \in FileIds, c \in ExcelContents : UploadExcel(f, c)
    \/ Matching
    \/ SelectAll
    \/ DeselectAll
    \/ \E i \in 1..MaxDocs : Toggle(i)
    \/ Cancel
    \/ \E credentials \in BOOLEAN : StartSend(credentials)
    \/ Poll
    \/ StoppedAtStatus
    \/ SendOk
    \/ \E msg \in Msgs \cup {"KeyError"} : SendFails(msg)
    \/ Progress
    \/ StoppedAtProgress
    \/ Sleep
    \/ Publish

Spec == Init /\ [][Next]_vars

(***************************************************************************)
(* run_matching with an arbitrary scorer: the loop of lines 147-189, one   *)
(* document per step.  The scores of fuzz.token_sort_ratio for the         *)
(* document against every name (nm) and every address (ad) of the table    *)
(* are inputs of the step, any values in Levels.                           *)
(***************************************************************************)
MatchTables == {[i \in 1..n |-> i] : n \in 0..MaxRows}

InitMatch ==
    /\ SessionDefaults /\ RunIdle /\ NormIdle /\ SplitIdle
    /\ m_docs \in DistinctSeqs(Docs, MaxDocs)
    /\ m_rows \in MatchTables
    /\ m_pos = 0
    /\ m_matches = <<>>
    /\ m_unmatched = <<>>
    /\ m_name = <<>>
    /\ m_addr = <<>>

\* the iteration without the "continue" of line 168: after a name match the
\* address search still runs and files the document a second time
MatchStepNoContinue(nm, ad) ==
    /\ m_pos < Len(m_docs)
    /\ LET d == m_docs[m_pos + 1]
           result_name == ExtractOne(nm)
           result_dir == ExtractOne(ad)
           byName == IF result_name.found /\ result_name.score >= MATCH_THRESHOLD
                     THEN <<MatchEntry(d, m_rows, result_name, "Nombre")>> ELSE <<>>
           byAddr == IF result_dir.found /\ result_dir.score >= MATCH_THRESHOLD
                     THEN <<MatchEntry(d, m_rows, result_dir, "Direccion")>> ELSE <<>>
       IN /\ m_matches' = m_matches \o byName \o byAddr
          /\ m_unmatched' = IF byAddr = <<>> THEN Append(m_unmatched, d) ELSE m_unmatched
    /\ m_pos' = m_pos + 1
    /\ m_name' = nm
    /\ m_addr' = ad
    /\ UNCHANGED <<session, run, nvars, svars, m_docs, m_rows>>

MatchStep(nm, ad) ==
    /\ m_pos < Len(m_docs)
    /\ LET d == m_docs[m_pos + 1]
           one == MatchOne(d, m_rows, nm, ad)
       IN IF one.matched
          THEN /\ m_matches' = Append(m_matches, one.entry)
               /\ UNCHANGED m_unmatched
          ELSE /\ m_unmatched' = Append(m_unmatched, one.entry)
               /\ UNCHANGED m_matches
    /\ m_pos' = m_pos + 1
    /\ m_name' = nm
    /\ m_addr' = ad
    /\ UNCHANGED <<session, run, nvars, svars, m_docs, m_rows>>

NextMatch ==
    \E nm \in [1..Len(m_rows) -> Levels], ad \in [1..Len(m_rows) -> Levels] :
        MatchStep(nm, ad)

SpecMatch == InitMatch /\ [][NextMatch]_vars

(***************************************************************************)
(* Properties of run_matching (checked under SpecMatch)                    *)
(***************************************************************************)
Count(seq, x) == Cardinality({i \in 1..Len(seq) : seq[i] = x})
MatchedNames == [i \in 1..Len(m_matches) |-> m_matches[i].pdf_name]
BestOf(scores) == IF Len(scores) = 0 THEN -1 ELSE Max(Range(scores))
IsMatchBy(d, by) ==
    \E i \in 1..Len(m_matches) :
        m_matches[i].pdf_name = d /\ m_matches[i].matched_by = by
FiledAs(d, by, score) ==
    \E i \in 1..Len(m_matches) :
        /\ m_matches[i].pdf_name = d
        /\ m_matches[i].matched_by = by
        /\ m_matches[i].score = score

\* C6: matches and unmatched partition the input documents: after the loop
\* has handled the first m_pos documents, each of them is filed exactly once,
\* in matches (as pdf_name) or in unmatched and never in both, the documents
\* not yet handled are filed nowhere, and nothing that is not an input
\* document is filed; at m_pos = Len(m_docs) this is the returned pair.  The
\* table may be empty.
C6_Partition ==
    /\ \A i \in 1..Len(m_docs) :
          Count(MatchedNames, m_docs[i]) + Count(m_unmatched, m_docs[i])
              = IF i <= m_pos THEN 1 ELSE 0
    /\ Range(MatchedNames) \cup Range(m_unmatched) \subseteq Range(m_docs)
    /\ Len(m_matches) + Len(m_unmatched) = m_pos

\* a finished run over MaxDocs documents that filed some as matches and some
\* as unmatched
C6_Witness ==
    /\ m_pos = Len(m_docs) /\ Len(m_docs) = MaxDocs
    /\ m_matches # <<>> /\ m_unmatched # <<>>

\* C10: the document handled last is a Name match with the best name score
\* iff that score is >= 80; an Address match with the best address score iff
\* the best name score is < 80 and the best address score is >= 80;
\* unmatched otherwise.  An address score is never used when a name score
\* reaches 80.
C10_Threshold ==
    m_pos >= 1 =>
        LET d == m_docs[m_pos]
            bn == BestOf(m_name)
            ba == BestOf(m_addr)
        IN /\ IsMatchBy(d, "Nombre") <=> bn >= 80
           /\ bn >= 80 => FiledAs(d, "Nombre", bn)
           /\ IsMatchBy(d, "Direccion") <=> (bn < 80 /\ ba >= 80)
           /\ (bn < 80 /\ ba >= 80) => FiledAs(d, "Direccion", ba)
           /\ (d \in Range(m_unmatched)) <=> (bn < 80 /\ ba < 80)

\* a document whose best name score is exactly 80 while an address scores
\* 100: it is filed as a Name match with score 80
C10_Witness ==
    /\ m_pos >= 1
    /\ BestOf(m_name) = 80 /\ BestOf(m_addr) = 100
    /\ FiledAs(m_docs[m_pos], "Nombre", 80)

(***************************************************************************)
(* normalize (lines 53-66).  A text is a sequence of one-character         *)
(* strings.                                                                *)
(***************************************************************************)
Letters == {"a", "b", "c", "d", "e", "i", "j", "l", "m", "n", "o", "r", "s",
            "t", "u", "y"}
Capitals == {"A", "B", "C", "E", "L", "M", "N", "O", "R", "S", "U"}

\* str.lower on one character
LowerChar(c) ==
    CASE c = "A" -> "a" [] c = "C" -> "c" [] c = "L" -> "l"
      [] c = "N" -> "n" [] c = "S" -> "s" [] c = "U" -> "u"
      [] c = "B" -> "b" [] c = "E" -> "e" [] c = "M" -> "m"
      [] c = "O" -> "o" [] c = "R" -> "r"
      [] OTHER -> c

\* line 62
Lower(t) == [i \in 1..Len(t) |-> LowerChar(t[i])]

\* \w of the regular expressions
IsWordChar(c) == c \in Letters \cup Capitals \cup {"_"}

\* the class [.,;:()\-_/\\] of _PUNCTUATION (line 56)
PunctuationClass == {".", ",", ";", ":", "(", ")", "-", "_", "/", "\\"}

\* \s of _SPACES (line 57)
SpaceClass == {" "}

\* the alternatives of _LEGAL_SUFFIXES in the order of line 54
LegalAlternatives ==
    << <<"s", ".", "l", ".", "u", ".">>, <<"s", "l", "u">>,
       <<"s", ".", "l", ".">>, <<"s", "l">>,
       <<"s", ".", "a", ".">>, <<"s", "a">> >>

\* \b between t[i] and t[i+1] (i = 0: the start, i = Len(t): the end)
WordBoundary(t, i) ==
    (i >= 1 /\ IsWordChar(t[i])) # (i < Len(t) /\ IsWordChar(t[i + 1]))

\* alternative alt stands at offset i (re.IGNORECASE)
LiteralAt(t, i, alt) ==
    /\ i + Len(alt) <= Len(t)
    /\ \A k \in 1..Len(alt) : LowerChar(t[i + k]) = alt[k]

\* the alternatives that make \b(...)\b match at offset i
AlternativesAt(t, i) ==
    {a \in 1..Len(LegalAlternatives) :
        /\ WordBoundary(t, i)
        /\ LiteralAt(t, i, LegalAlternatives[a])
        /\ WordBoundary(t, i + Len(LegalAlternatives[a]))}

RECURSIVE SubSuffixes(_, _)
\* _LEGAL_SUFFIXES.sub("", t) from offset i on: leftmost match, the first
\* alternative that lets the whole pattern match, then on after the match
SubSuffixes(t, i) ==
    IF i >= Len(t) THEN <<>>
    ELSE LET alts == AlternativesAt(t, i)
         IN IF alts # {}
            THEN LET a == CHOOSE x \in alts : \A y \in alts : x <= y
                 IN SubSuffixes(t, i + Len(LegalAlternatives[a]))
            ELSE <<t[i + 1]>> \o SubSuffixes(t, i + 1)

\* line 63
StripSuffixes(t) == SubSuffixes(t, 0)

RECURSIVE SubRuns(_, _, _)
\* re.sub(<class>+, " ", t): every maximal run of characters of the class
\* becomes one space
SubRuns(t, i, class) ==
    IF i > Len(t) THEN <<>>
    ELSE IF t[i] \in class
         THEN (IF i > 1 /\ t[i - 1] \in class THEN <<>> ELSE <<" ">>)
              \o SubRuns(t, i + 1, class)
         ELSE <<t[i]>> \o SubRuns(t, i + 1, class)

\* line 64
SubPunctuation(t) == SubRuns(t, 1, PunctuationClass)

\* line 65
SubSpaces(t) == SubRuns(t, 1, SpaceClass)

\* line 66: str.strip
Strip(t) ==
    LET keep == {i \in 1..Len(t) : t[i] \notin SpaceClass}
    IN IF keep = {} THEN <<>>
       ELSE LET lo == CHOOSE i \in keep : \A j \in keep : i <= j
                hi == CHOOSE i \in keep : \A j \in keep : j <= i
            IN [k \in 1..(hi - lo + 1) |-> t[lo + k - 1]]

normalize(text) == Strip(SubSpaces(SubPunctuation(StripSuffixes(Lower(text)))))

(***************************************************************************)
(* normalize applied, line by line, to two spellings of one name: the      *)
(* legal form written with dots (n_dotted) and without (n_plain)           *)
(***************************************************************************)
Stems == { <<"a", "c">>, <<"A", "c">>, <<"s", "a", "l">> }
Separators == { <<" ">>, <<",", " ">> }
Tails == { <<>>, <<" ", "n">>, <<",">> }
DottedForms == << <<"s", ".", "l", ".">>, <<"s", ".", "a", ".">>,
                  <<"s", ".", "l", ".", "u", ".">> >>
PlainForms == << <<"s", "l">>, <<"s", "a">>, <<"s", "l", "u">> >>
Upper(t) == [i \in 1..Len(t) |->
                CASE t[i] = "s" -> "S" [] t[i] = "l" -> "L" [] t[i] = "a" -> "A"
                  [] t[i] = "u" -> "U" [] OTHER -> t[i]]

InitNorm ==
    /\ SessionDefaults /\ RunIdle /\ MatchIdle /\ SplitIdle
    /\ \E stem \in Stems, sep \in Separators, tail \in Tails,
          f \in 1..Len(DottedForms), cap \in BOOLEAN :
          /\ n_dotted = stem \o sep
                        \o (IF cap THEN Upper(DottedForms[f]) ELSE DottedForms[f])
                        \o tail
          /\ n_plain = stem \o sep \o PlainForms[f] \o tail
    /\ n_out_dotted = n_dotted
    /\ n_out_plain = n_plain
    /\ n_stage = 0

\* one line of normalize, applied to both texts
NormStage(stage, dotted, plain) ==
    /\ n_stage = stage
    /\ n_out_dotted' = dotted
    /\ n_out_plain' = plain
    /\ n_stage' = stage + 1
    /\ UNCHANGED <<session, run, mvars, svars, n_dotted, n_plain>>

NormLower == NormStage(0, Lower(n_out_dotted), Lower(n_out_plain))
NormSuffixes == NormStage(1, StripSuffixes(n_out_dotted), StripSuffixes(n_out_plain))
NormPunctuation == NormStage(2, SubPunctuation(n_out_dotted), SubPunctuation(n_out_plain))
NormSpaces == NormStage(3, SubSpaces(n_out_dotted), SubSpaces(n_out_plain))
NormStrip == NormStage(4, Strip(n_out_dotted), Strip(n_out_plain))

NextNorm ==
    \/ NormLower
    \/ NormSuffixes
    \/ NormPunctuation
    \/ NormSpaces
    \/ NormStrip

SpecNorm == InitNorm /\ [][NextNorm]_vars

\* C9: a name written with a dotted legal suffix and the same name written
\* with the undotted suffix normalize to the same string (as "Acme, S.L." and
\* "acme sl" are said to)
C9_DottedEqualsPlain ==
    n_stage = 5 => n_out_dotted = n_out_plain

\* what the line-by-line run leaves is normalize of the input
NormStagesAreNormalize ==
    n_stage = 5 => /\ n_out_dotted = normalize(n_dotted)
                   /\ n_out_plain = normalize(n_plain)

(***************************************************************************)
(* Properties of the session and of the dispatch run (checked under Spec)  *)
(***************************************************************************)
Running == pc # "idle"
SelectedNames == [i \in 1..Len(selected_matches) |-> selected_matches[i].pdf_name]
\* transport calls begun and not yet returned
InFlight == IF pc = "send" /\ current.pdf_name \in Range(pdf_files) THEN 1 ELSE 0

\* The loop never finds the cancel flag set: it is cleared at line 558 and
\* only a later script run can set it (line 553).
CancelNeverSeenByLoop == Running => ~cancel_requested

C2_FinalLogComplete ==
    (~Running /\ selected_matches # <<>>) =>
        /\ Len(send_log) = Len(selected_matches)
        /\ \A i \in 1..Len(send_log) :
              /\ send_log[i].pdf_name = selected_matches[i].pdf_name
              /\ send_log[i].email = selected_matches[i].email
              /\ \/ send_log[i].estado = "Enviado" /\ send_log[i].mensaje = ""
                 \/ send_log[i].estado = "Error" /\ send_log[i].mensaje \in Msgs

\* C2 for the runs that reach line 612 (sending is reset there)
PublishedLogComplete ==
    (~Running /\ ~sending /\ selected_matches # <<>>) =>
        /\ Len(send_log) = Len(selected_matches)
        /\ \A i \in 1..Len(send_log) :
              /\ send_log[i].pdf_name = selected_matches[i].pdf_name
              /\ send_log[i].email = selected_matches[i].email
              /\ \/ send_log[i].estado = "Enviado" /\ send_log[i].mensaje = ""
                 \/ send_log[i].estado = "Error" /\ send_log[i].mensaje \in Msgs

\* C3: with no dispatch run in progress, sending and cancel_requested are
\* both false.
C3_FlagsClearWhenIdle ==
    ~Running => (~sending /\ ~cancel_requested)

C5_OneCallPerItem ==
    Running =>
        /\ Len(calls) <= Len(selected_matches)
        /\ calls = SubSeq(SelectedNames, 1, Len(calls))
        /\ Len(calls) = idx + (IF pc \in {"send", "progress", "sleep"} THEN 1 ELSE 0)
        /\ \A k \in 1..Len(calls) :
              \E i \in 1..Len(matches) :
                  matches[i].pdf_name = calls[k] /\ matches[i].selected
        /\ pc # "send" => Len(calls) = Len(log)

\* the end of a run of two or more items, one of them failed, while another
\* match was left unselected
C5_Witness ==
    /\ pc = "publish" /\ Len(calls) >= 2
    /\ \E i \in 1..Len(log) : log[i].estado = "Error"
    /\ \E i \in 1..Len(matches) : ~matches[i].selected

AllSelected(ms) == \A i \in 1..Len(ms) : ms[i].selected
MatchedNamesOf(ms) == [i \in 1..Len(ms) |-> ms[i].pdf_name]

RejectedUpload ==
    \/ \E f \in FileIds : UploadZip(f, [ok |-> FALSE, docs |-> <<>>])
    \/ \E f \in FileIds, c \in PdfContents :
          (~c.ok \/ c.docs = <<>>) /\ UploadPdf(f, c)
    \/ \E f \in FileIds : UploadExcel(f, [ok |-> FALSE, rows |-> <<>>])

\* C8: a rejected upload leaves every session-state entry unchanged.
C8_RejectedUploadChangesNothing ==
    [][RejectedUpload => UNCHANGED session]_vars

\* what a rejected upload does leave unchanged: everything but the file-id
\* entry of its uploader
RejectedUploadKeepsData ==
    [][RejectedUpload =>
        UNCHANGED <<pdf_files, df_excel, matches, unmatched, send_log, sending,
                    cancel_requested, matched_done, sel_gen>>]_vars

\* items of the run whose throttle decision (line 609) has been taken
Decided == IF pc \in {"send", "progress"} THEN idx
           ELSE IF pc = "sleep" THEN idx + 1 ELSE idx

\* C11: a pause follows the processing of an item iff the item is not the
\* last selected one and cancel_requested is not set when line 609 is
\* reached: the pauses of a run are one per item handled so far except the
\* last of the list, failed items included, so that a run that handles all n
\* items pauses n - 1 times; time.sleep is entered from line 609 only.
C11_ThrottleBetweenItems ==
    /\ [](Running =>
            pauses = IF Decided >= total THEN total - 1 ELSE Decided)
    /\ [][(pc = "progress" /\ pc' # "idle") =>
            ((pc' = "sleep") <=> (idx < total - 1 /\ ~cancel_requested))]_vars
    /\ [][pc' = "sleep" => pc = "progress"]_vars

\* the end of a run of MaxDocs items, the first of them failed: MaxDocs - 1
\* pauses
C11_Witness ==
    /\ pc = "publish" /\ total = MaxDocs /\ idx = total
    /\ log[1].estado = "Error"
    /\ pauses = MaxDocs - 1

(***************************************************************************)
(* split_pdf_by_cif (lines 72-125).  A page is the sequence of the lines   *)
(* of its text, a line a sequence of one-character strings; pages are      *)
(* numbered from 0 as in the code.                                         *)
(***************************************************************************)
MaxPages == 6
MaxLines == 4
LABEL_MAX == 80

\* the marker the sidebar gives (cif_separator)
cif == <<"B", "1">>

\* sub in t, for strings
Contains(t, sub) ==
    \E i \in 0..(Len(t) - Len(sub)) : SubSeq(t, i + 1, i + Len(sub)) = sub

Ejercicio == <<"e", "j", "e", "r", "c", "i", "c", "i", "o">>
EsDe == <<"e", "s", " ", "d", "e", ":">>
Euros == <<"e", "u", "r", "o", "s">>
MuySr == <<"M", "u", "y", " ", "S", "r">>
Urano == <<"U", "R", "A", "N", "O">>

\* the class [\\/*?:"<>|] of line 113
IllegalClass == {"\\", "/", "*", "?", ":", "\"", "<", ">", "|"}

\* lines a page may hold
LineImporte == <<"E", "j", "e", "r", "c", "i", "c", "i", "o", " ", "e", "s", " ", "d", "e", ":">>
LineCif == <<"c", " ">> \o cif
LineImporteCif == LineImporte \o <<" ">> \o cif
LineEuros == <<"E", "u", "r", "o", "s">>
LineMuySr == MuySr \o <<" ", "m">>
LineNameAc == <<" ", "a", "c">>
LineNameQuery == <<"a", "?", "c">>
LineIllegal == <<"?">>
LineBlank == <<" ">>
LineTexts == {LineImporte, LineCif, LineImporteCif, LineEuros, LineMuySr,
              LineNameAc, LineNameQuery, LineIllegal, LineBlank}

\* pages of a combined document
SamplePages ==
    { <<LineMuySr, LineNameAc>>,
      <<LineCif, LineNameAc>>,
      <<LineCif, LineBlank, LineNameQuery>>,
      <<LineCif, LineMuySr, LineImporte, LineEuros>>,
      <<LineImporte, LineNameAc, LineCif>> }

\* line 78: cif in doc[i].get_text()
HasMarker(page) == \E k \in 1..Len(page) : Contains(page[k], cif)

RECURSIVE MarkerPagesFrom(_, _)
MarkerPagesFrom(d, i) ==
    IF i >= Len(d) THEN <<>>
    ELSE (IF HasMarker(d[i + 1]) THEN <<i>> ELSE <<>>) \o MarkerPagesFrom(d, i + 1)

\* line 78
MarkerPages(d) == MarkerPagesFrom(d, 0)

\* line 92: [l.strip() for l in texto.split("\n") if l.strip()]
RECURSIVE StripLinesFrom(_, _)
StripLinesFrom(page, k) ==
    IF k > Len(page) THEN <<>>
    ELSE (IF Strip(page[k]) # <<>> THEN <<Strip(page[k])>> ELSE <<>>)
         \o StripLinesFrom(page, k + 1)

StripLines(page) == StripLinesFrom(page, 1)

Digit(d) == CASE d = 0 -> "0" [] d = 1 -> "1" [] d = 2 -> "2" [] d = 3 -> "3"
              [] d = 4 -> "4" [] d = 5 -> "5" [] d = 6 -> "6" [] d = 7 -> "7"
              [] d = 8 -> "8" [] d = 9 -> "9"

\* f"Cliente_{k:03d}" for k < 1000
ClienteNNN(k) ==
    <<"C", "l", "i", "e", "n", "t", "e", "_">>
    \o <<Digit((k \div 100) % 10), Digit((k \div 10) % 10), Digit(k % 10)>>

\* line 113: re.sub(r'[\\/*?:"<>|]', "", name).strip()[:80]
Sanitize(name) ==
    LET Legal(c) == c \notin IllegalClass
        t == Strip(SelectSeq(name, Legal))
    IN SubSeq(t, 1, IF Len(t) < LABEL_MAX THEN Len(t) ELSE LABEL_MAX)

\* pdf_dict[key] = value: a key already there keeps its place
Store(d, key, value) ==
    IF \E k \in 1..Len(d) : d[k].key = key
    THEN [k \in 1..Len(d) |-> IF d[k].key = key THEN [key |-> key, value |-> value]
                                              ELSE d[k]]
    ELSE Append(d, [key |-> key, value |-> value])

\* line 88 with indices_inicio[idx + 1] for indices_inicio[idx + 1] - 1
EndPageOverlapping(k) ==
    IF k + 1 < Len(indices_inicio) THEN indices_inicio[k + 2] ELSE Len(doc) - 1

\* line 88, for idx = k
EndPage(k) ==
    IF k + 1 < Len(indices_inicio) THEN indices_inicio[k + 2] - 1 ELSE Len(doc) - 1

SplitFixed == <<session, run, mvars, nvars>>

\* lines 77-85: the marker pages; none: return {}
SplitScan ==
    /\ s_pc = "scan"
    /\ indices_inicio' = MarkerPages(doc)
    /\ s_pc' = IF MarkerPages(doc) = <<>> THEN "done" ELSE "letter"
    /\ UNCHANGED <<SplitFixed, doc, s_idx, end_page, lineas, s_i, nombre_cliente,
                   pdf_dict, s_cuts>>

\* lines 87-93: the next letter is taken up
LetterBegin ==
    /\ s_pc = "letter"
    /\ s_idx < Len(indices_inicio)
    /\ end_page' = EndPage(s_idx)
    /\ lineas' = StripLines(doc[indices_inicio[s_idx + 1] + 1])
    /\ nombre_cliente' = <<>>
    /\ s_i' = 0
    /\ s_pc' = "lines"
    /\ UNCHANGED <<SplitFixed, doc, indices_inicio, s_idx, pdf_dict, s_cuts>>

\* line 97, for the line at position k (1-based)
IsImporteLine(ls, k) ==
    Contains(Lower(ls[k]), Ejercicio) /\ Contains(Lower(ls[k]), EsDe)

\* lines 97-98: Patron A gives the line after line k
PatronA(ls, k) ==
    /\ IsImporteLine(ls, k)
    /\ k < Len(ls)
    /\ Lower(ls[k + 1]) # Euros

\* lines 102-105: Patron B gives the line after line k
PatronB(ls, k, nombre) ==
    /\ Contains(ls[k], cif)
    /\ nombre = <<>>
    /\ k < Len(ls)
    /\ ~Contains(ls[k + 1], MuySr)
    /\ ~Contains(ls[k + 1], Urano)

\* lines 95-107: one iteration of the loop over the lines
LineStep ==
    /\ s_pc = "lines"
    /\ s_i < Len(lineas)
    /\ IF PatronA(lineas, s_i + 1) \/ PatronB(lineas, s_i + 1, nombre_cliente)
       THEN /\ nombre_cliente' = lineas[s_i + 2]
            /\ s_pc' = "store"
            /\ UNCHANGED s_i
       ELSE /\ s_i' = s_i + 1
            /\ UNCHANGED <<nombre_cliente, s_pc>>
    /\ UNCHANGED <<SplitFixed, doc, indices_inicio, s_idx, end_page, lineas,
                   pdf_dict, s_cuts>>

\* the loop over the lines ends without a break
LinesDone ==
    /\ s_pc = "lines"
    /\ s_i >= Len(lineas)
    /\ s_pc' = "store"
    /\ UNCHANGED <<SplitFixed, doc, indices_inicio, s_idx, end_page, lineas, s_i,
                   nombre_cliente, pdf_dict, s_cuts>>

\* lines 109-122: the key of the letter and its pages
LetterEnd ==
    /\ s_pc = "store"
    /\ LET named == IF nombre_cliente = <<>> THEN ClienteNNN(s_idx + 1)
                    ELSE nombre_cliente
           limpio == IF Sanitize(named) = <<>> THEN ClienteNNN(s_idx + 1)
                     ELSE Sanitize(named)
           pages == [from_page |-> indices_inicio[s_idx + 1], to_page |-> end_page]
       IN /\ pdf_dict' = Store(pdf_dict, limpio, pages)
          /\ s_cuts' = Append(s_cuts, pages)
    /\ s_idx' = s_idx + 1
    /\ s_pc' = "letter"
    /\ UNCHANGED <<SplitFixed, doc, indices_inicio, end_page, lineas, s_i,
                   nombre_cliente>>

\* lines 124-125
SplitReturn ==
    /\ s_pc = "letter"
    /\ s_idx >= Len(indices_inicio)
    /\ s_pc' = "done"
    /\ UNCHANGED <<SplitFixed, doc, indices_inicio, s_idx, end_page, lineas, s_i,
                   nombre_cliente, pdf_dict, s_cuts>>

NextSplit ==
    \/ SplitScan
    \/ LetterBegin
    \/ LineStep
    \/ LinesDone
    \/ LetterEnd
    \/ SplitReturn

SplitCalled ==
    /\ SessionDefaults /\ RunIdle /\ MatchIdle /\ NormIdle
    /\ indices_inicio = <<>> /\ s_pc = "scan" /\ s_idx = 0
    /\ end_page = 0 /\ lineas = <<>> /\ s_i = 0 /\ nombre_cliente = <<>>
    /\ pdf_dict = <<>> /\ s_cuts = <<>>

\* a combined document of 1..MaxPages pages
InitSplit ==
    /\ SplitCalled
    /\ doc \in UNION {[1..n -> SamplePages] : n \in 1..MaxPages}

SpecSplit == InitSplit /\ [][NextSplit]_vars

\* a document of one page of 0..MaxLines lines
InitLabel ==
    /\ SplitCalled
    /\ doc \in {<<page>> : page \in UNION {[1..n -> LineTexts] : n \in 0..MaxLines}}

SpecLabel == InitLabel /\ [][NextSplit]_vars

(***************************************************************************)
(* Properties of split_pdf_by_cif                                          *)
(***************************************************************************)
PagesOf(cut) == cut.from_page..cut.to_page

\* C12 (under SpecSplit): indices_inicio holds the marker pages b_0 < b_1 <
\* ... in ascending order; letter i is cut as pages b_i .. b_(i+1) - 1 and
\* the last letter as b_(k-1) .. n - 1; the ranges are non-empty and pairwise
\* disjoint, and when the function returns they cover exactly the pages
\* b_0 .. n - 1; every value of the returned mapping is one of these ranges;
\* with the marker on no page the mapping returned is empty.
C12_PageRanges ==
    LET n == Len(doc)
        k == Len(indices_inicio)
    IN /\ s_pc # "scan" =>
             /\ \A p \in 0..(n - 1) :
                   HasMarker(doc[p + 1]) <=> p \in Range(indices_inicio)
             /\ \A i, j \in 1..k : i < j => indices_inicio[i] < indices_inicio[j]
       /\ \A i \in 1..Len(s_cuts) :
             /\ s_cuts[i].from_page = indices_inicio[i]
             /\ s_cuts[i].to_page = (IF i < k THEN indices_inicio[i + 1] - 1 ELSE n - 1)
             /\ s_cuts[i].from_page <= s_cuts[i].to_page
       /\ \A i, j \in 1..Len(s_cuts) :
             i # j => PagesOf(s_cuts[i]) \cap PagesOf(s_cuts[j]) = {}
       /\ \A e \in Range(pdf_dict) : e.value \in Range(s_cuts)
       /\ s_pc = "done" =>
             IF k = 0
             THEN pdf_dict = <<>> /\ s_cuts = <<>>
             ELSE /\ Len(s_cuts) = k
                  /\ UNION {PagesOf(s_cuts[i]) : i \in 1..k}
                         = indices_inicio[1]..(n - 1)

\* six pages with the marker on pages 0 and 3: pages [0,2] and [3,5]
C12_Witness ==
    /\ s_pc = "done" /\ Len(doc) = 6
    /\ indices_inicio = <<0, 3>>
    /\ s_cuts = << [from_page |-> 0, to_page |-> 2], [from_page |-> 3, to_page |-> 5] >>

\* the lines after which Patron A, and Patron B, would give a label
ALabels(ls) == {ls[k + 1] : k \in {j \in 1..Len(ls) : PatronA(ls, j)}}
BLabels(ls) == {ls[k + 1] : k \in {j \in 1..Len(ls) : PatronB(ls, j, <<>>)}}

\* C13 (under SpecLabel): when the loop over the lines is over, the label is
\* the line after an "ejercicio ... es de:" line whenever the page has such a
\* line with a following line that is not "euros", wherever the marker line
\* stands; the line after a marker line is the label only when Patron A
\* gives none; and no label is left (Cliente_NNN follows) only when neither
\* pattern gives one.
C13_PatronAFirst ==
    s_pc = "store" =>
        /\ ALabels(lineas) # {} => nombre_cliente \in ALabels(lineas)
        /\ (ALabels(lineas) = {} /\ nombre_cliente # <<>>) =>
               nombre_cliente \in BLabels(lineas)
        /\ nombre_cliente = <<>> => (ALabels(lineas) = {} /\ BLabels(lineas) = {})

\* what the loop of lines 95-107 does: the label is the line after the first
\* line at which either pattern gives one
LabelOfFirstFiringLine ==
    s_pc = "store" =>
        LET firing == {k \in 1..Len(lineas) :
                          PatronA(lineas, k) \/ PatronB(lineas, k, <<>>)}
        IN IF firing = {} THEN nombre_cliente = <<>>
           ELSE nombre_cliente =
                    lineas[(CHOOSE k \in firing : \A j \in firing : k <= j) + 1]

(***************************************************************************)
(* matched_done and the data the matches were computed from                *)
(***************************************************************************)
\* an upload that replaces the document set or the recipient table
SuccessfulUpload ==
    \/ \E f \in FileIds, c \in ZipContents : c.ok /\ UploadZip(f, c)
    \/ \E f \in FileIds, c \in PdfContents :
          c.ok /\ c.docs # <<>> /\ UploadPdf(f, c)
    \/ \E f \in FileIds, c \in ExcelContents : c.ok /\ UploadExcel(f, c)

\* C14: whenever matched_done holds, matches and unmatched are the matching
\* of the current documents and table: every document is filed in one of
\* them, every match names a current document and a row of the current
\* table; a dispatch run starts and runs only while matched_done holds, and
\* its document lookup (line 577) never fails; and every upload that replaces
\* the documents or the table leaves matched_done false.
C14_MatchedDoneIsCurrent ==
    /\ [](matched_done =>
            /\ Range(pdf_files) # {} /\ df_excel.loaded
            /\ Range(MatchedNamesOf(matches)) \cup Range(unmatched) = Range(pdf_files)
            /\ Len(matches) + Len(unmatched) = Len(pdf_files)
            /\ \A i \in 1..Len(matches) :
                  /\ matches[i].pdf_name \in Range(pdf_files)
                  /\ matches[i].row_idx + 1 \in 1..Len(df_excel.rows)
                  /\ matches[i].email = df_excel.rows[matches[i].row_idx + 1])
    /\ [](Running =>
            /\ matched_done
            /\ \A i \in 1..Len(selected_matches) :
                  selected_matches[i].pdf_name \in Range(pdf_files)
            /\ \A i \in 1..Len(log) : log[i].mensaje # "KeyError")
    /\ [][SuccessfulUpload => ~matched_done']_vars

\* a dispatch run looks up the document of its second item, after both
\* uploaders of documents have been used and matching has run on the result
C14_Witness ==
    /\ pc = "send" /\ idx >= 1 /\ matched_done
    /\ zip_file_id # 0 /\ pdf_file_id # 0
    /\ current.pdf_name \in Range(pdf_files)

====
